---- MODULE Spec2Model ----
(***************************************************************************)
(* The release runner of make_release.py: metadata resolution, the         *)
(* skip-to-target loop of main, the three-phase lifecycle of Step.run and  *)
(* the operator (confirmation, interrupt, edits of the version file).      *)
(* Text is modelled as sequences of one-character strings.                 *)
(* The convenience readers of clevercsv/wrappers.py (read_as_dicts,        *)
(* read_as_lol, csv2df) have a specification of their own, SpecCsv.        *)
(***************************************************************************)
EXTENDS Integers, Sequences, FiniteSets, TLC

VARIABLES
    argv,       \* sys.argv[1:], the command-line arguments after the script name
    setup,      \* ./setup.py: [exists, lines]
    vfile,      \* <pkgname>/__version__.py: the namespace its execution binds
    pc,         \* control position of the process
    context,    \* the dict shared by all steps
    skip,       \* main's local skip
    idx,        \* position of the for loop in procedure (1-based)
    cmd,        \* do_cmd's argument while a command step is in its action
    rc,         \* the value os.system returned last (main never reads it)
    exc,        \* the exception that ended the process ("None": none)
    status,     \* exit status of the process (-1 while it runs)
    done,       \* "Done!" has been printed
    ran,        \* history: indices of the entries step.run was called on
    trace,      \* history: events of the current Step.run call
    executed,   \* history: commands passed to os.system
    nwaits,     \* history: number of wait_for_enter calls
    reads,      \* history: <<entry, key, value>> for each context read of an action
    written,    \* history: <<writer, key, value>> for each assignment to the context
    edits,      \* history: number of operator edits of the version file
    interrupted, \* history: entry whose run raised KeyboardInterrupt (0: none)
    call,       \* wrappers.py: the function called and its dialect argument
    path,       \* wrappers.py: what filename names: [kind, lines]
    dialect,    \* wrappers.py: the local variable dialect ("None": None)
    fid,        \* wrappers.py: the file object: [open, pos], pos counted in lines
    ops,        \* history: the operations a wrapper has performed, in order
    rows        \* wrappers.py: what the wrapper returned: [parser, text, dialect]

\* The variables of the release runner that the wrappers never touch
runner == <<argv, setup, vfile, context, skip, idx, cmd, rc, status, done, ran,
            trace, executed, nwaits, reads, written, edits, interrupted>>

\* The variables of the wrappers that the release runner never touches
wrap == <<call, path, dialect, fid, ops, rows>>

vars == <<argv, setup, vfile, pc, context, skip, idx, cmd, rc, exc, status,
          done, ran, trace, executed, nwaits, reads, written, edits,
          interrupted, call, path, dialect, fid, ops, rows>>

----------------------------------------------------------------------------
(* Bounds of the model. *)

\* Longest setup.py (in lines) the metadata specification enumerates.
MaxLines == 2
\* Number of times the operator edits the version file during one run.
MaxEdits == 1
\* Longest CSV file (in lines) the wrapper specification enumerates.
MaxRows == 2

----------------------------------------------------------------------------
(* str methods used by get_package_name and get_package_version. *)

Whitespace == {" ", "\n", "\t"}

\* str.startswith
StartsWith(s, p) == Len(s) >= Len(p) /\ SubSeq(s, 1, Len(p)) = p

RECURSIVE LStrip(_, _)
LStrip(s, chars) ==
    IF s # <<>> /\ Head(s) \in chars THEN LStrip(Tail(s), chars) ELSE s

RECURSIVE RStrip(_, _)
RStrip(s, chars) ==
    IF s # <<>> /\ s[Len(s)] \in chars
    THEN RStrip(SubSeq(s, 1, Len(s) - 1), chars)
    ELSE s

\* str.strip(chars): removes the leading and trailing characters in chars
Strip(s, chars) == RStrip(LStrip(s, chars), chars)

\* s.split(sep)[-1]: the text after the last occurrence of sep (s without sep)
SplitLast(s, sep) ==
    LET at == {i \in 1..Len(s) : s[i] = sep}
        last == IF at = {} THEN 0 ELSE CHOOSE i \in at : \A j \in at : j <= i
    IN  SubSeq(s, last + 1, Len(s))

LowerChar(c) ==
    CASE c = "C" -> "c"
      [] c = "S" -> "s"
      [] c = "V" -> "v"
      [] c = "N" -> "n"
      [] c = "A" -> "a"
      [] c = "M" -> "m"
      [] c = "E" -> "e"
      [] OTHER -> c

\* str.lower
Lower(s) == [i \in 1..Len(s) |-> LowerChar(s[i])]

----------------------------------------------------------------------------
(* Metadata resolution. A result is [exc, val]: exc = "None" on success. *)

NamePrefix == <<"N", "A", "M", "E", " ", "=", " ">>

\* The directory that holds __version__.py in the working tree.
PkgDir == <<"c", "s", "v">>

Ok(v) == [exc |-> "None", val |-> v]
Raise(e) == [exc |-> e, val |-> <<>>]

\* next((l.strip() for l in fp if l.startswith("NAME = ")), None)
NameLine(lines) ==
    LET at == {i \in 1..Len(lines) : StartsWith(lines[i], NamePrefix)}
    IN  IF at = {}
        THEN [none |-> TRUE, str |-> <<>>]
        ELSE [none |-> FALSE,
              str |-> Strip(lines[CHOOSE i \in at : \A j \in at : i <= j],
                            Whitespace)]

\* get_package_name: None has no split, so a missing NAME line is an AttributeError
get_package_name(file) ==
    IF ~file.exists THEN Raise("FileNotFoundError")
    ELSE LET nameline == NameLine(file.lines)
         IN  IF nameline.none THEN Raise("AttributeError")
             ELSE Ok(Strip(Strip(SplitLast(nameline.str, "="), Whitespace), {"\""}))

\* A variant that reads the binding with a default instead of indexing.
get_package_version_default(pkgname, ns) ==
    IF Lower(pkgname) # PkgDir THEN Raise("FileNotFoundError")
    ELSE IF "__version__" \in DOMAIN ns THEN Ok(ns["__version__"])
    ELSE Ok("")

\* get_package_version: ns is what exec of the file binds
get_package_version(pkgname, ns) ==
    IF Lower(pkgname) # PkgDir THEN Raise("FileNotFoundError")
    ELSE IF "__version__" \in DOMAIN ns THEN Ok(ns["__version__"])
    ELSE Raise("KeyError")

----------------------------------------------------------------------------
(* The step classes and the procedure of main. *)

\* What `action` of each Step subclass does: call do_cmd, open a browser and
\* instruct, or only instruct and print.
Kind(cls) ==
    CASE cls \in {"RunTests", "MakeClean", "MakeDocs", "MakeDist",
                  "PushToTestPyPI", "GitTagVersion", "PushToPyPI",
                  "PushToGitHub"} -> "do_cmd"
      [] cls \in {"WaitForTravis", "WaitForRTD"} -> "browser"
      [] OTHER -> "instruct"

\* The context keys an action indexes, in evaluation order.
Reads(cls) ==
    CASE cls = "UpdateChangelog" -> <<"version">>
      [] cls = "BumpVersionPackage" -> <<"pkgname">>
      [] cls = "InstallFromTestPyPI" -> <<"pkgname", "version">>
      [] cls = "TestPackage" -> <<"version", "pkgname">>
      [] cls = "GitTagVersion" -> <<"version">>
      [] cls = "GitTagPreRelease" -> <<"version">>
      [] cls = "GitAddRelease" -> <<"version">>
      [] OTHER -> <<>>

\* The argument an action passes to do_cmd.
Command(cls, ctx) ==
    CASE cls = "RunTests" -> <<"make test">>
      [] cls = "MakeClean" -> <<"make clean">>
      [] cls = "MakeDocs" -> <<"make docs">>
      [] cls = "MakeDist" -> <<"make dist">>
      [] cls = "PushToTestPyPI" ->
            <<"twine upload --repository-url https://test.pypi.org/legacy/ dist/*">>
      [] cls = "GitTagVersion" -> <<"git tag v", ctx["version"]>>
      [] cls = "PushToPyPI" -> <<"twine upload dist/*">>
      [] cls = "PushToGitHub" -> <<"git push -u --tags origin master">>
      [] OTHER -> <<>>

\* A variant in which the re-read sits in Step.post, so every class does it.
OverridesPostAll(cls) == TRUE

\* Only BumpVersionPackage overrides post.
OverridesPost(cls) == cls = "BumpVersionPackage"

\* A variant in which the overriding post leaves out the wait.
PostWaitsDefaultOnly(cls) == ~OverridesPost(cls)

\* Whether post of the class calls wait_for_enter: Step.post does, and so
\* does the override in BumpVersionPackage
PostWaits(cls) == TRUE

E(name, cls) == [name |-> name, step |-> cls]

procedure ==
    << E("gittomaster", "GitToMaster"),
       E("gitadd1", "GitAdd"),
       E("clean1", "MakeClean"),
       E("docs1", "MakeDocs"),
       E("runtests", "RunTests"),
       E("push1", "PushToGitHub"),
       E("travis1", "WaitForTravis"),
       E("waitrtd", "WaitForRTD"),
       E("bumpversion", "BumpVersionPackage"),
       E("gitadd2", "GitAdd"),
       E("gittagpre", "GitTagPreRelease"),
       E("push2", "PushToGitHub"),
       E("travis2", "WaitForTravis"),
       E("changelog", "UpdateChangelog"),
       E("clean2", "MakeClean"),
       E("docs2", "MakeDocs"),
       E("dist", "MakeDist"),
       E("testpypi", "PushToTestPyPI"),
       E("install", "InstallFromTestPyPI"),
       E("testpkg", "TestPackage"),
       E("deactivate", "DeactivateVenv"),
       E("addrelease", "GitAddRelease"),
       E("pypi", "PushToPyPI"),
       E("tagfinal", "GitTagVersion"),
       E("push3", "PushToGitHub"),
       E("travis3", "WaitForTravis") >>

Names == {procedure[i].name : i \in 1..Len(procedure)}

\* Position of the entry named n
IndexOf(n) == CHOOSE i \in 1..Len(procedure) : procedure[i].name = n

----------------------------------------------------------------------------
(* The inputs of a run: the command line and the two files. *)

LineComment == <<"#", "\n">>
LineName == <<"N", "A", "M", "E", " ", "=", " ", "\"", "c", "s", "v", "\"", "\n">>
LineNameUpper == <<"N", "A", "M", "E", " ", "=", " ", "\"", "C", "S", "V", "\"", "\n">>
LineNameOther == <<"N", "A", "M", "E", " ", "=", " ", "\"", "x", "\"", "\n">>
LineNameBare == <<"N", "A", "M", "E", " ", "=", " ", "c", "s", "v", "\n">>
LineIndented == <<" ", "N", "A", "M", "E", " ", "=", " ", "\"", "c", "s", "v", "\"", "\n">>

LineChoices ==
    {LineComment, LineName, LineNameUpper, LineNameOther, LineNameBare, LineIndented}

File(lines) == [exists |-> TRUE, lines |-> lines]
NoFile == [exists |-> FALSE, lines |-> <<>>]

\* Every setup.py of at most MaxLines lines, and the missing file.
AllFiles ==
    {NoFile} \cup
    UNION {{File(ls) : ls \in [1..n -> LineChoices]} : n \in 0..MaxLines}

\* The setup.py files a run of the whole script starts from.
SetupFiles ==
    {File(<<LineComment, LineName>>), File(<<LineNameUpper, LineNameOther>>),
     File(<<LineNameOther>>), File(<<LineComment, LineIndented>>)}

Binding(v) == [k \in {"__version__"} |-> v]
NoBinding == [k \in {} |-> ""]
Versions == {"0.4.0", "0.4.1"}
VFileStates == {Binding(v) : v \in Versions} \cup {NoBinding}

ArgvChoices == {<<>>} \cup {<<t>> : t \in Names \cup {"", "nosuchstep"}}
ExitCodes == {0, 1}

----------------------------------------------------------------------------
(* main and Step.run *)

\* target = sys.argv[1] if len(sys.argv) > 1 else None
Target == IF Len(argv) > 0
          THEN [none |-> FALSE, str |-> argv[1]]
          ELSE [none |-> TRUE, str |-> ""]

\* Truth value of an optional string: None and "" are false
Truthy(t) == ~t.none /\ t.str # ""

\* A variant that starts every run skipping.
InitSkipAlways(t) == TRUE

\* skip = True if target else False
InitSkip(t) == IF Truthy(t) THEN TRUE ELSE FALSE

\* name == target
NameIsTarget(name, t) == ~t.none /\ name = t.str

\* A variant that tests only the name, so entries after the target are skipped.
ShouldSkipByName(name, t, s) == ~NameIsTarget(name, t)

\* if not name == target and skip: continue
ShouldSkip(name, t, s) == ~NameIsTarget(name, t) /\ s

\* A variant that flips the flag on every entry it runs (skip = not skip).
NextSkipToggle(s) == ~s

\* skip = False, assigned on every entry that is run
NextSkip(s) == FALSE

\* context[k] = v
SetItem(ctx, k, v) ==
    [x \in DOMAIN ctx \cup {k} |-> IF x = k THEN v ELSE ctx[x]]

SeedName(ctx, v) == SetItem(ctx, "pkgname", v)

\* A variant that binds the version to a local name instead of the context.
SeedVersionLocal(ctx, v) == ctx

SeedVersion(ctx, v) == SetItem(ctx, "version", v)

\* A variant in which post assigns to a copy of the context.
CaptureVersionCopy(ctx, v) == ctx

\* BumpVersionPackage.post: context["version"] = self._get_version(context)
CaptureVersion(ctx, v) == SetItem(ctx, "version", v)

\* A variant that answers with the version the context already holds.
_get_version_cached(ctx, ns) == Ok(ctx["version"])

\* BumpVersionPackage._get_version
_get_version(ctx, ns) == get_package_version(ctx["pkgname"], ns)

\* A variant of run's body that calls post before action.
RunBodyPostFirst == <<"pre", "post", "action">>

\* The body of the try statement of Step.run
RunBody == <<"pre", "action", "post">>

\* Where control goes when phase p returns: the next phase, or out of run
After(p) ==
    LET i == CHOOSE k \in 1..Len(RunBody) : RunBody[k] = p
    IN  IF i < Len(RunBody) THEN RunBody[i + 1] ELSE "return"

\* A variant whose handler only prints, so run returns normally.
ExceptSwallow(e) ==
    IF e = "KeyboardInterrupt"
    THEN [raised |-> "None", code |-> 0]
    ELSE [raised |-> e, code |-> 1]

\* A variant whose handler exits without a status (raise SystemExit).
ExceptExitZero(e) ==
    IF e = "KeyboardInterrupt"
    THEN [raised |-> "SystemExit", code |-> 0]
    ELSE [raised |-> e, code |-> 1]

\* A variant with a bare except clause: every exception becomes SystemExit(1).
ExceptAll(e) == [raised |-> "SystemExit", code |-> 1]

\* The except clause of Step.run, for exception e raised in the try body:
\* KeyboardInterrupt becomes SystemExit(1), anything else propagates (an
\* uncaught exception ends the interpreter with status 1).
Except(e) ==
    IF e = "KeyboardInterrupt"
    THEN [raised |-> "SystemExit", code |-> 1]
    ELSE [raised |-> e, code |-> 1]

\* A variant of do_cmd that raises on a non-zero exit status.
system_checked(r) == IF r # 0 THEN "CalledProcessError" ELSE "None"

\* os.system(cmd) as an expression statement: its value r is discarded, so no
\* exit status raises ("None")
system(r) == "None"

\* A variant of do_cmd without the confirmation wait.
do_cmd_nowait(at) ==
    CASE at = "cprint" -> "cmd_run"
      [] at = "cmd_wait" -> "cmd_run"
      [] OTHER -> "return"

\* Step.do_cmd: print, wait_for_enter, os.system
do_cmd(at) ==
    CASE at = "cprint" -> "cmd_wait"
      [] at = "cmd_wait" -> "cmd_run"
      [] OTHER -> "return"

InStep == {"pre", "action", "cmd_wait", "cmd_run", "post", "post_wait", "post_read"}
Waiting == {"cmd_wait", "post_wait"}

Entry == procedure[idx]

env == <<argv, setup>>
locals == <<skip, idx, cmd, rc>>
hist == <<ran, trace, executed, nwaits, reads, written, edits, interrupted>>

\* The process ends: exception e (or "None") and exit status st
Terminate(e, st) == pc' = "exit" /\ exc' = e /\ status' = st

\* A variant whose loop does not advance past the entry it has run.
ReturnSameEntry(p) ==
    IF After(p) = "return"
    THEN pc' = "loop" /\ idx' = idx
    ELSE pc' = After(p) /\ idx' = idx

\* Phase p of the current step returns
Return(p) ==
    IF After(p) = "return"
    THEN pc' = "loop" /\ idx' = idx + 1
    ELSE pc' = After(p) /\ idx' = idx

\* Exception e is raised inside the try body of Step.run
RaiseInRun(e) ==
    LET h == Except(e)
    IN  IF h.raised = "None"
        THEN pc' = "loop" /\ idx' = idx + 1 /\ UNCHANGED <<exc, status>>
        ELSE Terminate(h.raised, h.code) /\ idx' = idx

Closed == [open |-> FALSE, pos |-> 0]
NoRows == [parser |-> "None", text |-> <<>>, dialect |-> "None"]

\* No wrapper is called during a run of make_release.py
NoCall ==
    /\ call = [fn |-> "None", dialect |-> "None"]
    /\ path = [kind |-> "missing", lines |-> <<>>]
    /\ dialect = "None"
    /\ fid = Closed
    /\ ops = <<>>
    /\ rows = NoRows

\* get_package_name, tabulated over the setup.py files the specifications
\* enumerate.
NameOf == [f \in AllFiles |-> get_package_name(f)]

Init ==
    /\ argv \in ArgvChoices
    /\ setup \in SetupFiles
    /\ vfile \in VFileStates
    /\ pc = "get_name"
    /\ context = [k \in {} |-> ""]
    /\ skip = FALSE
    /\ idx = 0
    /\ cmd = <<>>
    /\ rc = 0
    /\ exc = "None"
    /\ status = -1
    /\ done = FALSE
    /\ ran = <<>>
    /\ trace = <<>>
    /\ executed = <<>>
    /\ nwaits = 0
    /\ reads = {}
    /\ written = <<>>
    /\ edits = 0
    /\ interrupted = 0
    /\ NoCall

\* context["pkgname"] = get_package_name()
GetName ==
    /\ pc = "get_name"
    /\ LET r == NameOf[setup]
       IN  IF r.exc # "None"
           THEN Terminate(r.exc, 1) /\ UNCHANGED <<context, written>>
           ELSE /\ context' = SeedName(context, r.val)
                /\ written' = Append(written, <<"main", "pkgname", r.val>>)
                /\ pc' = "get_version"
                /\ UNCHANGED <<exc, status>>
    /\ UNCHANGED <<env, vfile, locals, done, ran, trace, executed, nwaits,
                   reads, edits, interrupted>>
    /\ UNCHANGED wrap

\* context["version"] = get_package_version(context["pkgname"])
GetVersion ==
    /\ pc = "get_version"
    /\ LET r == IF "pkgname" \in DOMAIN context
                THEN get_package_version(context["pkgname"], vfile)
                ELSE Raise("KeyError")
       IN  IF r.exc # "None"
           THEN Terminate(r.exc, 1) /\ UNCHANGED <<context, written>>
           ELSE /\ context' = SeedVersion(context, r.val)
                /\ written' = Append(written, <<"main", "version", r.val>>)
                /\ pc' = "init_skip"
                /\ UNCHANGED <<exc, status>>
    /\ UNCHANGED <<env, vfile, locals, done, ran, trace, executed, nwaits,
                   reads, edits, interrupted>>
    /\ UNCHANGED wrap

\* skip = True if target else False, and the for loop starts
InitLoop ==
    /\ pc = "init_skip"
    /\ skip' = InitSkip(Target)
    /\ idx' = 1
    /\ pc' = "loop"
    /\ UNCHANGED <<env, vfile, context, cmd, rc, exc, status, done, hist>>
    /\ UNCHANGED wrap

\* The loop body takes `continue`
LoopSkip ==
    /\ pc = "loop"
    /\ idx <= Len(procedure)
    /\ ShouldSkip(Entry.name, Target, skip)
    /\ idx' = idx + 1
    /\ UNCHANGED <<env, vfile, pc, context, skip, cmd, rc, exc, status, done, hist>>
    /\ UNCHANGED wrap

\* skip = False; step.run(context) is called and enters its try body
LoopRun ==
    /\ pc = "loop"
    /\ idx <= Len(procedure)
    /\ ~ShouldSkip(Entry.name, Target, skip)
    /\ skip' = NextSkip(skip)
    /\ ran' = Append(ran, idx)
    /\ trace' = <<>>
    /\ pc' = RunBody[1]
    /\ UNCHANGED <<env, vfile, context, idx, cmd, rc, exc, status, done,
                   executed, nwaits, reads, written, edits, interrupted>>
    /\ UNCHANGED wrap

\* The loop is exhausted: cprint("\nDone!") and main returns
LoopEnd ==
    /\ pc = "loop"
    /\ idx > Len(procedure)
    /\ done' = TRUE
    /\ Terminate("None", 0)
    /\ UNCHANGED <<env, vfile, context, locals, hist>>
    /\ UNCHANGED wrap

\* Step.pre: pass
StepPre ==
    /\ pc = "pre"
    /\ trace' = trace \o << <<"pre">>, <<"return", "pre">> >>
    /\ Return("pre")
    /\ UNCHANGED <<env, vfile, context, skip, cmd, rc, exc, status, done, ran,
                   executed, nwaits, reads, written, edits, interrupted>>
    /\ UNCHANGED wrap

\* action of the entry's class, up to its return or to the wait of do_cmd
StepAction ==
    /\ pc = "action"
    /\ LET cls == Entry.step
           keys == Reads(cls)
           missing == \E i \in 1..Len(keys) : keys[i] \notin DOMAIN context
       IN  IF missing
           THEN /\ trace' = trace \o << <<"action">>, <<"raise", "KeyError">> >>
                /\ RaiseInRun("KeyError")
                /\ UNCHANGED <<cmd, nwaits, reads>>
           ELSE /\ reads' = reads \cup
                        {<<idx, keys[i], context[keys[i]]>> : i \in 1..Len(keys)}
                /\ IF Kind(cls) = "do_cmd"
                   THEN /\ cmd' = Command(cls, context)
                        /\ pc' = do_cmd("cprint")
                        /\ idx' = idx
                        /\ IF do_cmd("cprint") = "cmd_wait"
                           THEN /\ trace' = trace \o << <<"action">>,
                                       <<"Going to run", cmd'>>, <<"wait_for_enter">> >>
                                /\ nwaits' = nwaits + 1
                           ELSE /\ trace' = trace \o << <<"action">>,
                                       <<"Going to run", cmd'>> >>
                                /\ nwaits' = nwaits
                   ELSE /\ trace' = trace \o
                            (IF Kind(cls) = "browser"
                             THEN << <<"action">>, <<"webbrowser.open">>,
                                     <<"return", "action">> >>
                             ELSE << <<"action">>, <<"return", "action">> >>)
                        /\ Return("action")
                        /\ UNCHANGED <<cmd, nwaits>>
                /\ UNCHANGED <<exc, status>>
    /\ UNCHANGED <<env, vfile, context, skip, rc, done, ran, executed,
                   written, edits, interrupted>>
    /\ UNCHANGED wrap

\* The operator presses Enter at the wait of do_cmd
CmdEnter ==
    /\ pc = "cmd_wait"
    /\ trace' = Append(trace, <<"enter">>)
    /\ pc' = do_cmd("cmd_wait")
    /\ UNCHANGED <<env, vfile, context, locals, exc, status, done, ran,
                   executed, nwaits, reads, written, edits, interrupted>>
    /\ UNCHANGED wrap

\* os.system(cmd) runs and returns some exit status; do_cmd and action return
CmdSystem ==
    /\ pc = "cmd_run"
    /\ \E r \in ExitCodes :
         /\ rc' = r
         /\ IF system(r) = "None"
            THEN /\ trace' = trace \o << <<"os.system", cmd>>, <<"return", "action">> >>
                 /\ Return("action")
                 /\ UNCHANGED <<exc, status>>
            ELSE /\ trace' = trace \o << <<"os.system", cmd>>, <<"raise", system(r)>> >>
                 /\ RaiseInRun(system(r))
    /\ executed' = Append(executed, cmd)
    /\ UNCHANGED <<env, vfile, context, skip, cmd, done, ran,
                   nwaits, reads, written, edits, interrupted>>
    /\ UNCHANGED wrap

\* post is called: Step.post and BumpVersionPackage.post both start by
\* wait_for_enter()
StepPost ==
    /\ pc = "post"
    /\ IF PostWaits(Entry.step)
       THEN /\ trace' = trace \o << <<"post">>, <<"wait_for_enter">> >>
            /\ nwaits' = nwaits + 1
            /\ pc' = "post_wait"
            /\ idx' = idx
       ELSE /\ nwaits' = nwaits
            /\ IF OverridesPost(Entry.step)
               THEN /\ trace' = Append(trace, <<"post">>)
                    /\ pc' = "post_read"
                    /\ idx' = idx
               ELSE /\ trace' = trace \o << <<"post">>, <<"return", "post">> >>
                    /\ Return("post")
    /\ UNCHANGED <<env, vfile, context, skip, cmd, rc, exc, status, done, ran,
                   executed, reads, written, edits, interrupted>>
    /\ UNCHANGED wrap

\* The operator presses Enter at the wait of post
PostEnter ==
    /\ pc = "post_wait"
    /\ IF OverridesPost(Entry.step)
       THEN /\ trace' = Append(trace, <<"enter">>)
            /\ pc' = "post_read"
            /\ idx' = idx
       ELSE /\ trace' = trace \o << <<"enter">>, <<"return", "post">> >>
            /\ Return("post")
    /\ UNCHANGED <<env, vfile, context, skip, cmd, rc, exc, status, done, ran,
                   executed, nwaits, reads, written, edits, interrupted>>
    /\ UNCHANGED wrap

\* BumpVersionPackage.post after the wait: re-read the version file
PostRead ==
    /\ pc = "post_read"
    /\ LET r == IF "pkgname" \in DOMAIN context
                THEN _get_version(context, vfile)
                ELSE Raise("KeyError")
       IN  IF r.exc # "None"
           THEN /\ RaiseInRun(r.exc)
                /\ trace' = Append(trace, <<"raise", r.exc>>)
                /\ UNCHANGED <<context, written>>
           ELSE /\ context' = CaptureVersion(context, r.val)
                /\ written' = Append(written, <<Entry.name, "version", r.val>>)
                /\ trace' = trace \o << <<"_get_version", r.val>>,
                                        <<"return", "post">> >>
                /\ Return("post")
                /\ UNCHANGED <<exc, status>>
    /\ UNCHANGED <<env, vfile, skip, cmd, rc, done, ran, executed, nwaits,
                   reads, edits, interrupted>>
    /\ UNCHANGED wrap

\* The operator interrupts while Step.run is in its try body
Interrupt ==
    /\ pc \in InStep
    /\ interrupted' = idx
    /\ trace' = Append(trace, <<"KeyboardInterrupt", pc>>)
    /\ RaiseInRun("KeyboardInterrupt")
    /\ UNCHANGED <<env, vfile, context, skip, cmd, rc, done, ran, executed,
                   nwaits, reads, written, edits>>
    /\ UNCHANGED wrap

\* The operator edits the version file while the script waits for Enter
OperatorEdit ==
    /\ pc \in Waiting
    /\ edits < MaxEdits
    /\ \E ns \in VFileStates \ {vfile} :
         /\ vfile' = ns
         /\ trace' = Append(trace, <<"edit", vfile, ns>>)
    /\ edits' = edits + 1
    /\ UNCHANGED <<env, pc, context, locals, exc, status, done, ran,
                   executed, nwaits, reads, written, interrupted>>
    /\ UNCHANGED wrap

Next ==
    \/ GetName
    \/ GetVersion
    \/ InitLoop
    \/ LoopSkip
    \/ LoopRun
    \/ LoopEnd
    \/ StepPre
    \/ StepAction
    \/ CmdEnter
    \/ CmdSystem
    \/ StepPost
    \/ PostEnter
    \/ PostRead
    \/ Interrupt
    \/ OperatorEdit

Spec == Init /\ [][Next]_vars

\* The steps the interpreter takes by itself
Program ==
    \/ GetName \/ GetVersion \/ InitLoop \/ LoopSkip \/ LoopRun \/ LoopEnd
    \/ StepPre \/ StepAction \/ StepPost \/ PostRead

\* The operator answers a wait: Enter, or an interrupt
Answer == CmdEnter \/ PostEnter \/ (pc \in Waiting /\ Interrupt)

\* The interpreter keeps running, the operator answers every wait and every
\* spawned command returns.
Fairness == WF_vars(Program) /\ WF_vars(Answer) /\ WF_vars(CmdSystem)

SpecLive == Spec /\ Fairness

\* The metadata resolver alone, on every setup.py of at most MaxLines lines
InitMeta ==
    /\ argv = <<>>
    /\ setup \in AllFiles
    /\ vfile \in VFileStates
    /\ pc = "get_name"
    /\ context = [k \in {} |-> ""]
    /\ skip = FALSE /\ idx = 0 /\ cmd = <<>> /\ rc = 0
    /\ exc = "None" /\ status = -1 /\ done = FALSE
    /\ ran = <<>> /\ trace = <<>> /\ executed = <<>> /\ nwaits = 0
    /\ reads = {} /\ written = <<>> /\ edits = 0 /\ interrupted = 0
    /\ NoCall

NextMeta == GetName \/ GetVersion

SpecMeta == InitMeta /\ [][NextMeta]_vars

----------------------------------------------------------------------------
(* clevercsv/wrappers.py. A file is a sequence of lines and the position   *)
(* of a file object counts lines. Detector, reader, DictReader and          *)
(* get_encoding are called by the wrappers but defined elsewhere: a parse   *)
(* is recorded as the parser, the text it was given and the dialect it was  *)
(* given, and the detector may answer with any dialect or with None.        *)

LineTexts == {"a,b", "a;b"}

\* What filename can name: nothing, a directory, or a regular file of at
\* most MaxRows lines.
Paths ==
    {[kind |-> "missing", lines |-> <<>>], [kind |-> "dir", lines |-> <<>>]} \cup
    {[kind |-> "file", lines |-> t] :
        t \in UNION {[1..n -> LineTexts] : n \in 0..MaxRows}}

\* The dialect argument: None (the default), or a dialect given as a string;
\* the empty string is a value that is falsy but is not None.
DialectArgs == {"None", "", ",", ";"}

\* csv2df has no dialect parameter.
Calls ==
    {[fn |-> f, dialect |-> d] :
        f \in {"read_as_lol", "read_as_dicts"}, d \in DialectArgs}
    \cup {[fn |-> "csv2df", dialect |-> "None"]}

\* What Detector().detect may return.
Detected == {"None", ",", ";"}

path_exists(p) == p.kind # "missing"
path_isfile(p) == p.kind = "file"

\* A variant of the guard that leaves out os.path.isfile.
IsRegularFileExistsOnly(p) == path_exists(p)

\* os.path.exists(filename) and os.path.isfile(filename)
IsRegularFile(p) == path_exists(p) /\ path_isfile(p)

\* `dialect is None`
NeedsDetection(d) == d = "None"

\* fid.read(): the text from the position to the end of the file
read(f, p) == SubSeq(p.lines, f.pos + 1, Len(p.lines))

\* A variant in which the position is left where detection put it.
seek_noop(f, offset) == f

\* fid.seek(offset)
seek(f, offset) == [f EXCEPT !.pos = offset]

\* reader(fid, dialect) and DictReader(fid, dialect=dialect), consumed to the
\* end: the parse of what is left of the file, with the dialect passed
reader(f, p, d) == [parser |-> "reader", text |-> read(f, p), dialect |-> d]
DictReader(f, p, d) == [parser |-> "DictReader", text |-> read(f, p), dialect |-> d]

\* dialect.to_csv_dialect()
to_csv_dialect(d) == <<"csv.Dialect", d>>

\* pd.read_csv(filename, dialect=csv_dialect): pandas opens the file itself
read_csv(p, d) == [parser |-> "pd.read_csv", text |-> p.lines, dialect |-> d]

\* The wrapper raises e
Fail(e) == pc' = "raised" /\ exc' = e

InitCsv ==
    /\ call \in Calls
    /\ path \in Paths
    /\ pc = "call"
    /\ exc = "None"
    /\ dialect = call.dialect
    /\ fid = Closed
    /\ ops = <<>>
    /\ rows = NoRows
    /\ argv = <<>> /\ setup = NoFile /\ vfile = NoBinding
    /\ context = [k \in {} |-> ""]
    /\ skip = FALSE /\ idx = 0 /\ cmd = <<>> /\ rc = 0
    /\ status = -1 /\ done = FALSE
    /\ ran = <<>> /\ trace = <<>> /\ executed = <<>> /\ nwaits = 0
    /\ reads = {} /\ written = <<>> /\ edits = 0 /\ interrupted = 0

\* csv2df: the guard on filename; `and` does not call isfile when exists is false
Check ==
    /\ pc = "call"
    /\ call.fn = "csv2df"
    /\ ops' = ops \o (IF path_exists(path)
                      THEN << <<"os.path.exists">>, <<"os.path.isfile">> >>
                      ELSE << <<"os.path.exists">> >>)
    /\ IF IsRegularFile(path)
       THEN pc' = "get_encoding" /\ exc' = exc
       ELSE Fail("ValueError")
    /\ UNCHANGED <<call, path, dialect, fid, rows, runner>>

\* enc = get_encoding(filename): the first statement of read_as_dicts and
\* read_as_lol, the statement after the guard in csv2df. On a path that is
\* not a regular file it raises or returns.
GetEncoding ==
    /\ \/ pc = "get_encoding"
       \/ pc = "call" /\ call.fn # "csv2df"
    /\ ops' = Append(ops, <<"get_encoding">>)
    /\ \/ pc' = "open" /\ exc' = exc
       \/ path.kind # "file" /\ Fail("OSError")
    /\ UNCHANGED <<call, path, dialect, fid, rows, runner>>

\* open(filename, "r", newline="", encoding=enc), and in read_as_dicts and
\* read_as_lol the test `if dialect is None`
Open ==
    /\ pc = "open"
    /\ ops' = Append(ops, <<"open">>)
    /\ IF path.kind = "file"
       THEN /\ fid' = [open |-> TRUE, pos |-> 0]
            /\ pc' = IF call.fn = "csv2df" \/ NeedsDetection(dialect)
                     THEN "detect"
                     ELSE "reader"
            /\ exc' = exc
       ELSE Fail("OSError") /\ fid' = fid
    /\ UNCHANGED <<call, path, dialect, rows, runner>>

\* dialect = Detector().detect(fid.read(), ...); csv2df then leaves the
\* with block, which closes the file
Detect ==
    /\ pc = "detect"
    /\ \E d \in Detected :
         /\ dialect' = d
         /\ ops' = ops \o << <<"read", fid.pos, Len(read(fid, path))>>,
                            <<"detect", d>> >>
    /\ IF call.fn = "csv2df"
       THEN fid' = [open |-> FALSE, pos |-> Len(path.lines)] /\ pc' = "to_csv_dialect"
       ELSE fid' = [fid EXCEPT !.pos = Len(path.lines)] /\ pc' = "seek"
    /\ UNCHANGED <<call, path, rows, exc, runner>>

\* fid.seek(0)
Seek ==
    /\ pc = "seek"
    /\ fid' = seek(fid, 0)
    /\ ops' = Append(ops, <<"seek">>)
    /\ pc' = "reader"
    /\ UNCHANGED <<call, path, dialect, rows, exc, runner>>

\* r = reader(fid, dialect); return list(r)  (read_as_lol)
\* r = DictReader(fid, dialect=dialect); every row is yielded  (read_as_dicts)
Reader ==
    /\ pc = "reader"
    /\ rows' = IF call.fn = "read_as_dicts"
               THEN DictReader(fid, path, dialect)
               ELSE reader(fid, path, dialect)
    /\ ops' = Append(ops, <<"reader", fid.pos, dialect>>)
    /\ fid' = [open |-> FALSE, pos |-> Len(path.lines)]
    /\ pc' = "returned"
    /\ UNCHANGED <<call, path, dialect, exc, runner>>

\* csv_dialect = dialect.to_csv_dialect(): None has no such attribute
ToCsvDialect ==
    /\ pc = "to_csv_dialect"
    /\ ops' = Append(ops, <<"to_csv_dialect">>)
    /\ IF dialect = "None"
       THEN Fail("AttributeError")
       ELSE pc' = "read_csv" /\ exc' = exc
    /\ UNCHANGED <<call, path, dialect, fid, rows, runner>>

\* df = pd.read_csv(filename, *args, dialect=csv_dialect, **kwargs); return df
ReadCsv ==
    /\ pc = "read_csv"
    /\ ops' = Append(ops, <<"pd.read_csv">>)
    /\ rows' = read_csv(path, to_csv_dialect(dialect))
    /\ pc' = "returned"
    /\ UNCHANGED <<call, path, dialect, fid, exc, runner>>

NextCsv ==
    \/ Check
    \/ GetEncoding
    \/ Open
    \/ Detect
    \/ Seek
    \/ Reader
    \/ ToCsvDialect
    \/ ReadCsv

SpecCsv == InitCsv /\ [][NextCsv]_vars

----------------------------------------------------------------------------
(* Helpers of the properties. *)

IsPrefix(a, b) == Len(a) <= Len(b) /\ SubSeq(b, 1, Len(a)) = a

\* The indices of the procedure from i to its end
Suffix(i) == [k \in 1..(Len(procedure) - i + 1) |-> i + k - 1]

Last(q) == q[Len(q)]

IsPhaseStart(e) == Len(e) = 1 /\ e[1] \in {"pre", "action", "post"}
PhaseStarts(tr) == SelectSeq(tr, IsPhaseStart)

Supplied == Len(argv) > 0

\* Number of entries run so far whose action calls do_cmd
CmdEntriesRun ==
    Cardinality({i \in 1..Len(ran) : Kind(procedure[ran[i]].step) = "do_cmd"})

\* The metadata could not be located when main resolved it (the version file
\* is only edited at a wait, so without an edit vfile is what main read).
MetadataMissing ==
    \/ ~setup.exists
    \/ NameLine(setup.lines).none
    \/ edits = 0 /\ "__version__" \notin DOMAIN vfile

----------------------------------------------------------------------------
(* The properties. *)

\* C1: with a target that names an entry, run is called on the entries from
\* that entry on, in procedure order and once each (ran is always a prefix of
\* that suffix and is the whole suffix when "Done!" is printed), and on no
\* entry before it.
C1_TargetRunsSuffix ==
    (Supplied /\ argv[1] \in Names) =>
        /\ IsPrefix(ran, Suffix(IndexOf(argv[1])))
        /\ done => ran = Suffix(IndexOf(argv[1]))

C1_Witness ==
    /\ argv = <<"bumpversion">>
    /\ done
    /\ Len(ran) = 18 /\ ran[1] = 9 /\ ran[18] = 26

\* C2 (as claimed): with the metadata resolved, a supplied target that names
\* no entry, the empty string included, starts the loop with skip = TRUE,
\* runs no entry and ends with "Done!" and status 0.
C2_AbsentTargetRunsNothing ==
    (Supplied /\ argv[1] \notin Names /\ pc \in {"loop", "exit"} \cup InStep
        /\ Len(written) >= 2) =>
        /\ (pc = "loop" /\ idx = 1) => skip
        /\ ran = <<>>
        /\ pc = "exit" => done /\ status = 0

\* C3: without a target skip is false from the first entry on, run is
\* called on the entries in procedure order, once each, and on all of them
\* by the time "Done!" is printed.
C3_NoTargetRunsAll ==
    ~Supplied =>
        /\ pc \notin {"get_name", "get_version", "init_skip"} => ~skip
        /\ IsPrefix(ran, Suffix(1))
        /\ done => ran = Suffix(1) /\ Len(ran) = Len(procedure)

C3_Witness ==
    /\ argv = <<>>
    /\ done
    /\ Len(ran) = 26 /\ ran[1] = 1 /\ ran[26] = 26

\* C4: after a KeyboardInterrupt in the run of entry N the process has ended
\* with SystemExit and status 1, N is the last entry run was called on,
\* nothing (no wait, command or phase) follows the interrupt in the step, and
\* "Done!" is not printed.
C4_InterruptAborts ==
    interrupted # 0 =>
        /\ pc = "exit" /\ exc = "SystemExit" /\ status = 1
        /\ ~done
        /\ ran # <<>> /\ Last(ran) = interrupted
        /\ trace # <<>> /\ Last(trace)[1] = "KeyboardInterrupt"

C4_Witness ==
    /\ interrupted = 3
    /\ ran = <<1, 2, 3>>
    /\ Last(trace) = <<"KeyboardInterrupt", "cmd_wait">>
    /\ pc = "exit" /\ status = 1

\* C5: the version bumpversion's post wrote is the version every later
\* entry reads, and the one the context holds.
C5_CapturedVersionVisible ==
    \A w \in 1..Len(written) :
        written[w][1] = "bumpversion" =>
            /\ context["version"] = written[w][3]
            /\ \A r \in reads :
                (r[1] > IndexOf("bumpversion") /\ r[2] = "version")
                    => r[3] = written[w][3]

C5_Witness ==
    /\ Len(written) = 3
    /\ written[3][1] = "bumpversion"
    /\ written[3][3] # written[2][3]
    /\ <<24, "version", written[3][3]>> \in reads

\* C6: in one call of run the phases start in the order pre, action, post,
\* each at most once; action starts only after pre returned and post only
\* after action returned; nothing follows an exception raised in the call.
C6_PhaseOrder ==
    /\ IsPrefix(PhaseStarts(trace), << <<"pre">>, <<"action">>, <<"post">> >>)
    /\ \A i \in 1..Len(trace) :
        /\ trace[i] = <<"action">> =>
               \E j \in 1..(i - 1) : trace[j] = <<"return", "pre">>
        /\ trace[i] = <<"post">> =>
               \E j \in 1..(i - 1) : trace[j] = <<"return", "action">>
        /\ trace[i][1] = "KeyboardInterrupt" => i = Len(trace)
    /\ (pc = "exit" /\ exc \notin {"None", "SystemExit"} /\ ran # <<>>) =>
           \A p \in {"pre", "action", "post"} :
               <<p>> = Last(PhaseStarts(trace)) =>
                   \A i \in 1..Len(trace) : trace[i] # <<"return", p>>

C6_Witness ==
    /\ pc = "loop"
    /\ PhaseStarts(trace) = << <<"pre">>, <<"action">>, <<"post">> >>
    /\ \E i \in 1..Len(trace) : trace[i][1] = "os.system"
    /\ Last(trace) = <<"return", "post">>

\* C7: once run has been called on some entry the context holds pkgname and
\* version.
C7_ContextSeeded ==
    ran # <<>> => {"pkgname", "version"} \subseteq DOMAIN context

C7_Witness ==
    /\ Len(ran) = Len(procedure)
    /\ done
    /\ DOMAIN context = {"pkgname", "version"}
    /\ Len(written) = 3

\* C8: when the name or the version cannot be located the process ends with
\* an error before the loop: no run, no wait, no command, no "Done!".
C8_MetadataFailureIsFatal ==
    MetadataMissing =>
        /\ pc \in {"get_name", "get_version", "exit"}
        /\ ran = <<>> /\ nwaits = 0 /\ executed = <<>> /\ ~done
        /\ pc = "exit" => exc # "None" /\ status # 0

C8_Witness ==
    /\ pc = "exit"
    /\ "__version__" \notin DOMAIN vfile
    /\ Len(written) = 1
    /\ exc = "KeyError"
    /\ ran = <<>>

\* The error outcomes that identify something as not found.
NotFoundConditions == {"NotFound", "MetadataNotFound", "FileNotFoundError",
                       "LookupError", "KeyError"}

\* C9 (as claimed): a setup.py without a NAME line makes get_package_name
\* fail with a NotFound condition.
C9_MissingNameIsNotFound ==
    (setup.exists /\ NameLine(setup.lines).none /\ pc = "exit") =>
        exc \in NotFoundConditions

\* C10: os.system(cmd) is called only after cmd was printed, the wait was
\* entered and the operator pressed Enter, in that order; an interrupt at that
\* wait leaves the command of the step uninvoked.
C10_CommandAfterConfirmation ==
    /\ \A i \in 1..Len(trace) :
        trace[i][1] = "os.system" =>
            \E j, k, l \in 1..(i - 1) :
                /\ j < k /\ k < l
                /\ trace[j] = <<"Going to run", trace[i][2]>>
                /\ trace[k] = <<"wait_for_enter">>
                /\ trace[l] = <<"enter">>
    /\ Len(executed) <= CmdEntriesRun
    /\ (trace # <<>> /\ Last(trace) = <<"KeyboardInterrupt", "cmd_wait">>) =>
        /\ \A i \in 1..Len(trace) : trace[i][1] # "os.system"
        /\ Len(executed) = CmdEntriesRun - 1

C10_Witness ==
    /\ interrupted = 4
    /\ Last(trace) = <<"KeyboardInterrupt", "cmd_wait">>
    /\ executed = << <<"make clean">> >>

\* C11: whatever os.system returns, its call is followed at once by the
\* return of action, from where control is at post with no exception and the
\* process still running; a run whose last command failed can end with
\* "Done!" and status 0.
C11_ExitStatusIgnored ==
    /\ \A i \in 1..Len(trace) :
        trace[i][1] = "os.system" =>
            i < Len(trace) /\ trace[i + 1] = <<"return", "action">>
    /\ (trace # <<>> /\ Last(trace) = <<"return", "action">>) =>
        pc = "post" /\ exc = "None" /\ status = -1
    /\ done => status = 0 /\ exc = "None"

C11_Witness ==
    /\ done /\ status = 0
    /\ rc = 1
    /\ Len(ran) = Len(procedure)
    /\ Len(executed) = 12

\* C12: "Done!" is printed only by the step that ends the process after the
\* loop is exhausted (so at most once), with no exception and status 0; a
\* process that ended without exception printed it; a run ended by an
\* interrupt in a step or by an error never printed it, and the interrupt's
\* status is 1.
C12_DoneOnlyAfterLoop ==
    /\ done =>
        /\ pc = "exit" /\ exc = "None" /\ status = 0
        /\ idx = Len(procedure) + 1
        /\ interrupted = 0
    /\ (pc = "exit" /\ exc = "None") => done /\ status = 0
    /\ status = 0 => done
    /\ (pc = "exit" /\ exc # "None") => ~done /\ status # 0
    /\ interrupted # 0 => ~done /\ status = 1

C12_Witness ==
    /\ argv = <<"travis3">>
    /\ done /\ status = 0 /\ exc = "None"
    /\ ran = <<26>>

\* What C13 says of every exception other than KeyboardInterrupt raised in a
\* step: it ends the process at once as itself, the step stays the last one
\* run (no retry, no later step) and "Done!" is not printed.
ErrorPropagates(i) ==
    /\ i = Len(trace)
    /\ pc = "exit" /\ exc = trace[i][2] /\ exc # "SystemExit"
    /\ ~done
    /\ interrupted = 0
    /\ Last(ran) = idx
    /\ \A j, k \in 1..Len(ran) : j < k => ran[j] < ran[k]

\* C13 (as claimed): ... and the exit status is not the interrupt's status 1.
C13_ErrorStatusDistinct ==
    \A i \in 1..Len(trace) :
        trace[i][1] = "raise" => ErrorPropagates(i) /\ status # 1

\* C13 (amended): ... and the error is not converted into SystemExit; the
\* exit status is non-zero (it is 1, the status of any uncaught exception).
C13_ErrorPropagates ==
    \A i \in 1..Len(trace) :
        trace[i][1] = "raise" => ErrorPropagates(i) /\ status # 0

C13_Witness ==
    /\ trace # <<>> /\ Last(trace) = <<"raise", "KeyError">>
    /\ procedure[Last(ran)].name = "bumpversion"
    /\ pc = "exit" /\ exc = "KeyError"
    /\ edits = 1

\* The position of the start of post in the trace (0: not started)
PostStart ==
    LET at == {j \in 1..Len(trace) : trace[j] = <<"post">>}
    IN  IF at = {} THEN 0 ELSE CHOOSE j \in at : TRUE

\* The version file as it was when post began: what the first edit after
\* PostStart replaced, or the present file when there was no such edit
FileAtPostStart ==
    LET ed == {e \in (PostStart + 1)..Len(trace) : trace[e][1] = "edit"}
    IN  IF ed = {} THEN vfile
        ELSE trace[CHOOSE e \in ed : \A f \in ed : e <= f][2]

\* C15 (as claimed): in bumpversion, post re-reads the version file before it
\* waits, and the version it captures is the file's as post began.
C15_ReadBeforeWait ==
    \A i \in 1..Len(trace) :
        trace[i][1] = "_get_version" =>
            /\ \A k \in (PostStart + 1)..(i - 1) : trace[k] # <<"wait_for_enter">>
            /\ "__version__" \in DOMAIN FileAtPostStart
            /\ trace[i][2] = FileAtPostStart["__version__"]

\* C15 (amended): in bumpversion, post first waits; once the operator has
\* pressed Enter it re-reads the version file and overwrites version in the
\* context. The version captured is the file's at that moment, edits made
\* during the wait included.
C15_WaitBeforeRead ==
    \A i \in 1..Len(trace) :
        trace[i][1] = "_get_version" =>
            /\ Entry.name = "gitadd2" \/ pc = "exit"
            /\ PostStart > 0 /\ PostStart < i
            /\ trace[PostStart + 1] = <<"wait_for_enter">>
            /\ trace[i - 1] = <<"enter">>
            /\ \A k \in (PostStart + 2)..(i - 2) : trace[k][1] = "edit"
            /\ "__version__" \in DOMAIN vfile
            /\ trace[i][2] = vfile["__version__"]
            /\ context["version"] = trace[i][2]

C15_Witness ==
    \E i \in 1..Len(trace) :
        /\ trace[i][1] = "_get_version"
        /\ trace[i - 2][1] = "edit"
        /\ trace[i - 2][2] = Binding("0.4.0")
        /\ trace[i - 2][3] = Binding("0.4.1")
        /\ trace[i][2] = "0.4.1"
        /\ context["version"] = "0.4.1"

\* C16: once the loop has started, skip is true exactly while a non-empty
\* target was given and no entry has been run; the first entry run is then
\* the one named by the target. So skip goes from true to false once, at
\* that entry, and stays false: the entries run are consecutive and reach the
\* end of the procedure.
C16_SkipFlipsOnce ==
    idx >= 1 =>
        /\ skip <=> (Truthy(Target) /\ ran = <<>>)
        /\ (Truthy(Target) /\ ran # <<>>) => procedure[ran[1]].name = argv[1]
        /\ \A k \in 1..Len(ran) : ran[k] = ran[1] + k - 1
        /\ (pc = "loop" /\ ran # <<>>) => idx = Last(ran) + 1
        /\ (done /\ ran # <<>>) => Last(ran) = Len(procedure)

C16_Witness ==
    /\ argv = <<"changelog">>
    /\ pc = "loop" /\ idx = 17
    /\ ~skip
    /\ ran = <<14, 15, 16>>

\* C17: whenever control is back at the loop after a step, that step's post
\* has called wait_for_enter and the operator has pressed Enter there before
\* post returned; so no later entry starts before that confirmation. This
\* holds for every class, BumpVersionPackage included.
C17_PostConfirmsBeforeNext ==
    (pc = "loop" /\ ran # <<>>) =>
        /\ Last(trace) = <<"return", "post">>
        /\ \E k \in (PostStart + 1)..Len(trace) :
            /\ PostStart > 0
            /\ trace[k] = <<"wait_for_enter">>
            /\ \E l \in (k + 1)..Len(trace) : trace[l] = <<"enter">>
        /\ nwaits >= Len(ran)

C17_Witness ==
    /\ pc = "loop" /\ idx = 10
    /\ Len(ran) = 9
    /\ procedure[Last(ran)].step = "BumpVersionPackage"
    /\ nwaits = 13
    /\ PostStart > 0
    /\ trace[PostStart + 1] = <<"wait_for_enter">>

\* C18: a step of the process changes the context only when it is one of the
\* two seeding assignments of main or the assignment in post of
\* BumpVersionPackage; pkgname, once set, keeps its value.
C18_ContextFrame ==
    [][ /\ context' # context =>
            \/ pc \in {"get_name", "get_version"}
            \/ pc = "post_read" /\ Entry.step = "BumpVersionPackage"
        /\ "pkgname" \in DOMAIN context =>
            /\ "pkgname" \in DOMAIN context'
            /\ context'["pkgname"] = context["pkgname"]
      ]_vars

C18_Witness ==
    /\ done
    /\ Len(ran) = Len(procedure)
    /\ Len(written) = 3
    /\ context["version"] = written[3][3]
    /\ context["version"] # written[2][3]
    /\ context["pkgname"] = written[1][3]

\* C19: when the operator answers every wait and every command returns, the
\* process ends; it ends after the last entry with "Done!" or with an
\* exception (SystemExit from an interrupt, or a propagated error); and the
\* entries run are strictly increasing, so none is run twice.
C19_Terminates ==
    /\ <>(pc = "exit")
    /\ [](pc = "exit" => (done /\ idx = Len(procedure) + 1) \/ exc # "None")
    /\ [](\A j, k \in 1..Len(ran) : j < k => ran[j] < ran[k])

C19_Witness ==
    /\ pc = "exit"
    /\ exc = "SystemExit"
    /\ Len(ran) = Len(procedure)
    /\ Last(trace) = <<"KeyboardInterrupt", "post_wait">>

\* The positions in ops of the calls of Detector().detect
Detections == {i \in 1..Len(ops) : ops[i][1] = "detect"}

\* C14: when filename does not name an existing regular file, csv2df ends
\* by raising ValueError, and up to then it has performed nothing but the
\* os.path tests of its guard: no get_encoding, no open, no read, no
\* detection, no pandas read.
C14_ValueErrorBeforeAnyRead ==
    (call.fn = "csv2df" /\ path.kind # "file") =>
        /\ pc \in {"call", "raised"}
        /\ pc = "raised" => exc = "ValueError"
        /\ \A i \in 1..Len(ops) :
             ops[i][1] \in {"os.path.exists", "os.path.isfile"}
        /\ ~fid.open
        /\ rows = NoRows

C14_Witness ==
    /\ call.fn = "csv2df"
    /\ path.kind = "dir"
    /\ pc = "raised"
    /\ exc = "ValueError"
    /\ ops = << <<"os.path.exists">>, <<"os.path.isfile">> >>

\* C20: in read_as_lol and read_as_dicts the detector is called only when
\* the dialect argument is None, and then exactly once, on the whole file;
\* the position is back at 0 when the reader is built, so the parse covers
\* the file from its first line; a supplied dialect (the empty string
\* included) is the one the reader gets, and a detected one otherwise.
C20_DetectOnlyWhenNone ==
    call.fn \in {"read_as_lol", "read_as_dicts"} =>
        /\ Detections # {} => call.dialect = "None"
        /\ (call.dialect = "None" /\ pc \in {"seek", "reader", "returned"}) =>
             /\ Cardinality(Detections) = 1
             /\ \A i \in Detections :
                  /\ i > 1
                  /\ ops[i - 1] = <<"read", 0, Len(path.lines)>>
                  /\ ops[i][2] = dialect
        /\ pc = "seek" => fid.pos = Len(path.lines)
        /\ pc = "reader" => fid.pos = 0
        /\ call.dialect # "None" => dialect = call.dialect
        /\ pc = "returned" =>
             /\ rows.text = path.lines
             /\ rows.dialect = dialect
             /\ rows.parser = IF call.fn = "read_as_lol" THEN "reader" ELSE "DictReader"

C20_Witness ==
    /\ call = [fn |-> "read_as_lol", dialect |-> "None"]
    /\ pc = "returned"
    /\ Len(path.lines) = 2
    /\ rows = [parser |-> "reader", text |-> path.lines, dialect |-> ","]
    /\ Len(ops) = 6

====
